---- MODULE Spec2Model ----
(***************************************************************************)
(* Focus-Guard: a browser extension keeping a list of blocked domains.     *)
(* Model of the Domain Rules (normalizeDomain, isValidDomain), the Block   *)
(* List Store (blockedDomainsStorage) and the Navigation Guard             *)
(* (checkAndBlockDomain and its two listeners).                            *)
(*                                                                         *)
(* Strings are sequences of one-character strings, so that trimming, case  *)
(* folding, prefix stripping and splitting are computed as the code does.  *)
(***************************************************************************)
EXTENDS Naturals, Integers, Sequences, FiniteSets, TLC

VARIABLES
    domains,   \* the persisted collection: Seq of [domain, enabled]
    lastOp,    \* record of the last completed operation (history)
    input,     \* the string handed to a pure function under test
    tabUrl,    \* tabUrl[t]: the URL tab t currently shows
    events,    \* browser events dispatched but not yet handled
    pending,   \* checkAndBlockDomain calls awaiting the store read
    navUrl,    \* navUrl[t]: the URL tab t was last navigated to (history)
    popup,     \* the popup component: domainInput, error, blockedDomains
    calls,     \* mutation calls in flight and the collection they started from
    persisted  \* the value kept under the storage key

vars == <<domains, lastOp, input, tabUrl, events, pending, navUrl, popup, calls, persisted>>

----------------------------------------------------------------------------
(* Characters and string helpers *)

LowerCase == <<"a","b","c","d","e","f","g","h","i","j","k","l","m",
               "n","o","p","q","r","s","t","u","v","w","x","y","z">>

UpperCase == <<"A","B","C","D","E","F","G","H","I","J","K","L","M",
               "N","O","P","Q","R","S","T","U","V","W","X","Y","Z">>

Digits == {"0","1","2","3","4","5","6","7","8","9"}

WhiteSpace == {" ", "\t", "\n"}

Range(f) == {f[i] : i \in DOMAIN f}

Letters == Range(LowerCase) \cup Range(UpperCase)

AlphaNum == Letters \cup Digits

\* String.prototype.toLowerCase on one character
ToLowerChar(c) ==
    IF \E i \in DOMAIN UpperCase : UpperCase[i] = c
    THEN LowerCase[CHOOSE i \in DOMAIN UpperCase : UpperCase[i] = c]
    ELSE c

ToLowerCase(s) == [i \in 1..Len(s) |-> ToLowerChar(s[i])]

\* String.prototype.trim: drop leading and trailing white space
RECURSIVE TrimStart(_)
TrimStart(s) ==
    IF s # <<>> /\ Head(s) \in WhiteSpace THEN TrimStart(Tail(s)) ELSE s

RECURSIVE TrimEnd(_)
TrimEnd(s) ==
    IF s # <<>> /\ s[Len(s)] \in WhiteSpace
    THEN TrimEnd(SubSeq(s, 1, Len(s) - 1)) ELSE s

Trim(s) == TrimEnd(TrimStart(s))

StartsWith(s, p) == Len(s) >= Len(p) /\ SubSeq(s, 1, Len(p)) = p

EndsWith(s, p) ==
    Len(s) >= Len(p) /\ SubSeq(s, Len(s) - Len(p) + 1, Len(s)) = p

\* String.prototype.includes
Includes(s, p) ==
    \E i \in 1..(Len(s) + 1) :
        i + Len(p) - 1 <= Len(s) /\ SubSeq(s, i, i + Len(p) - 1) = p

DropPrefix(s, n) == SubSeq(s, n + 1, Len(s))

\* index of the first occurrence of character c in s, 0 when absent
IndexOf(s, c) ==
    IF \E i \in 1..Len(s) : s[i] = c
    THEN CHOOSE i \in 1..Len(s) : s[i] = c /\ \A j \in 1..(i - 1) : s[j] # c
    ELSE 0

\* String.prototype.split(c): the pieces between occurrences of c
RECURSIVE Split(_, _)
Split(s, c) ==
    IF IndexOf(s, c) = 0 THEN <<s>>
    ELSE <<SubSeq(s, 1, IndexOf(s, c) - 1)>> \o Split(DropPrefix(s, IndexOf(s, c)), c)

\* string literals used by the code
SchemeHttp  == <<"h","t","t","p",":","/","/">>
SchemeHttps == <<"h","t","t","p","s",":","/","/">>
WwwPrefix   == <<"w","w","w",".">>
Slash       == <<"/">>

----------------------------------------------------------------------------
(* Domain Rules *)

\* domain.replace(/^https?:\/\//, '')
StripScheme(s) ==
    IF StartsWith(s, SchemeHttp) THEN DropPrefix(s, Len(SchemeHttp))
    ELSE IF StartsWith(s, SchemeHttps) THEN DropPrefix(s, Len(SchemeHttps))
    ELSE s

\* domain.replace(/^www\./, '')
StripWww(s) == IF StartsWith(s, WwwPrefix) THEN DropPrefix(s, Len(WwwPrefix)) ELSE s

\* domain.replace(/\/$/, '')
StripTrailingSlash(s) == IF EndsWith(s, Slash) THEN SubSeq(s, 1, Len(s) - 1) ELSE s

\* domain.split('/')[0]
StripPath(s) == Split(s, "/")[1]

normalizeDomain(s) ==
    StripPath(StripTrailingSlash(StripWww(StripScheme(ToLowerCase(Trim(s))))))

MaxDomainLen == 253
MaxLabelLen == 63
MinTldLen == 2

\* [a-z0-9]([a-z0-9-]{0,61}[a-z0-9])? with the i flag
RegexLabel(l) ==
    /\ Len(l) >= 1
    /\ Len(l) <= MaxLabelLen
    /\ l[1] \in AlphaNum
    /\ l[Len(l)] \in AlphaNum
    /\ \A i \in 1..Len(l) : l[i] \in AlphaNum \cup {"-"}

\* [a-z]{2,} with the i flag
RegexTld(l) == Len(l) >= MinTldLen /\ \A i \in 1..Len(l) : l[i] \in Letters

\* /^([a-z0-9]([a-z0-9-]{0,61}[a-z0-9])?\.)+[a-z]{2,}$/i .test(domain)
domainRegex(d) ==
    LET labels == Split(d, ".") IN
    /\ Len(labels) >= 2
    /\ \A i \in 1..(Len(labels) - 1) : RegexLabel(labels[i])
    /\ RegexTld(labels[Len(labels)])

\* variant of isValidDomain with a plausible slip: no total length check
isValidDomainNoMaxLen(d) ==
    LET labels == Split(d, ".") IN
    /\ Len(d) # 0
    /\ domainRegex(d)
    /\ Len(labels) >= 2
    /\ Len(labels[Len(labels)]) >= MinTldLen
    /\ \A i \in 1..Len(labels) :
          /\ Len(labels[i]) <= MaxLabelLen
          /\ Len(labels[i]) # 0
          /\ labels[i][1] # "-"
          /\ labels[i][Len(labels[i])] # "-"

isValidDomain(d) ==
    LET labels == Split(d, ".") IN
    /\ Len(d) # 0
    /\ domainRegex(d)
    /\ Len(d) <= MaxDomainLen
    /\ Len(labels) >= 2
    /\ Len(labels[Len(labels)]) >= MinTldLen
    /\ \A i \in 1..Len(labels) :
          /\ Len(labels[i]) <= MaxLabelLen
          /\ Len(labels[i]) # 0
          /\ labels[i][1] # "-"
          /\ labels[i][Len(labels[i])] # "-"

----------------------------------------------------------------------------
(* JSON values, JSON.parse and JSON.stringify *)

JStr(cs)  == [t |-> "string", v |-> cs]
JNum(n)   == [t |-> "number", v |-> n]
JBool(b)  == [t |-> "boolean", v |-> b]
JNull     == [t |-> "null", v |-> 0]
JUndef    == [t |-> "undefined", v |-> 0]
JArr(es)  == [t |-> "array", v |-> es]
JObj(ms)  == [t |-> "object", v |-> ms]

Member(k, v) == [k |-> k, v |-> v]

Quote == "\""

LitTrue  == <<"t","r","u","e">>
LitFalse == <<"f","a","l","s","e">>
LitNull  == <<"n","u","l","l">>
LitUndefined == <<"u","n","d","e","f","i","n","e","d">>

DigitSeq == <<"0","1","2","3","4","5","6","7","8","9">>

DigitVal(c) == (CHOOSE i \in DOMAIN DigitSeq : DigitSeq[i] = c) - 1

\* the characters JSON.parse skips between tokens
JsonWs == {" ", "\t", "\n"}

\* first index from i on that holds no white space, Len(s) + 1 at the end
RECURSIVE SkipWs(_, _)
SkipWs(s, i) == IF i <= Len(s) /\ s[i] \in JsonWs THEN SkipWs(s, i + 1) ELSE i

\* first index from i on that holds no digit
RECURSIVE SkipDigits(_, _)
SkipDigits(s, i) == IF i <= Len(s) /\ s[i] \in Digits THEN SkipDigits(s, i + 1) ELSE i

RECURSIVE NumVal(_)
NumVal(ds) == IF ds = <<>> THEN 0 ELSE 10 * NumVal(SubSeq(ds, 1, Len(ds) - 1)) + DigitVal(ds[Len(ds)])

ParseFail == [ok |-> FALSE, val |-> JNull, next |-> 0]
ParseOk(v, n) == [ok |-> TRUE, val |-> v, next |-> n]

At(s, i, lit) == i + Len(lit) - 1 <= Len(s) /\ SubSeq(s, i, i + Len(lit) - 1) = lit

\* a string token opening at the quote s[i]: no escapes, no control characters
ParseString(s, i) ==
    LET k == i + IndexOf(DropPrefix(s, i), Quote) IN
    IF i > Len(s) \/ s[i] # Quote \/ k = i THEN ParseFail
    ELSE IF \E j \in (i + 1)..(k - 1) : s[j] \in {"\\", "\t", "\n"} THEN ParseFail
    ELSE ParseOk(JStr(SubSeq(s, i + 1, k - 1)), k + 1)

\* a number token at s[i]: an integer without sign, fraction or exponent
ParseNumber(s, i) ==
    LET k == SkipDigits(s, i) IN
    IF k = i THEN ParseFail
    ELSE IF s[i] = "0" /\ k > i + 1 THEN ParseFail
    ELSE ParseOk(JNum(NumVal(SubSeq(s, i, k - 1))), k)

RECURSIVE ParseValue(_, _)
RECURSIVE ParseElements(_, _, _)
RECURSIVE ParseMembers(_, _, _)

\* the value that starts at or after s[i]
ParseValue(s, i) ==
    LET j == SkipWs(s, i) IN
    IF j > Len(s) THEN ParseFail
    ELSE IF s[j] = Quote THEN ParseString(s, j)
    ELSE IF s[j] \in Digits THEN ParseNumber(s, j)
    ELSE IF At(s, j, LitTrue) THEN ParseOk(JBool(TRUE), j + Len(LitTrue))
    ELSE IF At(s, j, LitFalse) THEN ParseOk(JBool(FALSE), j + Len(LitFalse))
    ELSE IF At(s, j, LitNull) THEN ParseOk(JNull, j + Len(LitNull))
    ELSE IF s[j] = "[" THEN
        (IF SkipWs(s, j + 1) <= Len(s) /\ s[SkipWs(s, j + 1)] = "]"
         THEN ParseOk(JArr(<<>>), SkipWs(s, j + 1) + 1)
         ELSE ParseElements(s, j + 1, <<>>))
    ELSE IF s[j] = "{" THEN
        (IF SkipWs(s, j + 1) <= Len(s) /\ s[SkipWs(s, j + 1)] = "}"
         THEN ParseOk(JObj(<<>>), SkipWs(s, j + 1) + 1)
         ELSE ParseMembers(s, j + 1, <<>>))
    ELSE ParseFail

\* the elements of an array from s[i] on, acc being those read so far
ParseElements(s, i, acc) ==
    LET e == ParseValue(s, i)
        k == SkipWs(s, e.next)
    IN  IF ~e.ok \/ k > Len(s) THEN ParseFail
        ELSE IF s[k] = "," THEN ParseElements(s, k + 1, Append(acc, e.val))
        ELSE IF s[k] = "]" THEN ParseOk(JArr(Append(acc, e.val)), k + 1)
        ELSE ParseFail

\* the members of an object from s[i] on, acc being those read so far
ParseMembers(s, i, acc) ==
    LET key == ParseString(s, SkipWs(s, i))
        c == SkipWs(s, key.next)
        e == ParseValue(s, c + 1)
        k == SkipWs(s, e.next)
    IN  IF ~key.ok \/ c > Len(s) THEN ParseFail
        ELSE IF s[c] # ":" THEN ParseFail
        ELSE IF ~e.ok \/ k > Len(s) THEN ParseFail
        ELSE IF s[k] = "," THEN ParseMembers(s, k + 1, Append(acc, Member(key.val.v, e.val)))
        ELSE IF s[k] = "}" THEN ParseOk(JObj(Append(acc, Member(key.val.v, e.val))), k + 1)
        ELSE ParseFail

\* JSON.parse(s): ok is FALSE when it throws SyntaxError
JsonParse(s) ==
    LET r == ParseValue(s, 1) IN
    IF r.ok /\ SkipWs(s, r.next) > Len(s) THEN r ELSE ParseFail

\* the decimal digits of n
RECURSIVE NumStr(_)
NumStr(n) == IF n < 10 THEN <<DigitSeq[n + 1]>> ELSE NumStr(n \div 10) \o <<DigitSeq[(n % 10) + 1]>>

RECURSIVE Stringify(_)
RECURSIVE StringifyAll(_)
RECURSIVE StringifyMembers(_)

\* JSON.stringify(v)
Stringify(v) ==
    IF v.t = "string" THEN <<Quote>> \o v.v \o <<Quote>>
    ELSE IF v.t = "number" THEN NumStr(v.v)
    ELSE IF v.t = "boolean" THEN (IF v.v THEN LitTrue ELSE LitFalse)
    ELSE IF v.t = "array" THEN <<"[">> \o StringifyAll(v.v) \o <<"]">>
    ELSE IF v.t = "object" THEN <<"{">> \o StringifyMembers(v.v) \o <<"}">>
    ELSE LitNull

StringifyAll(es) ==
    IF es = <<>> THEN <<>>
    ELSE IF Len(es) = 1 THEN Stringify(es[1])
    ELSE Stringify(es[1]) \o <<",">> \o StringifyAll(Tail(es))

StringifyMembers(ms) ==
    IF ms = <<>> THEN <<>>
    ELSE LET m == <<Quote>> \o ms[1].k \o <<Quote, ":">> \o Stringify(ms[1].v) IN
         IF Len(ms) = 1 THEN m ELSE m \o <<",">> \o StringifyMembers(Tail(ms))

\* item.key: the value of the last member named key, undefined without one
Get(item, key) ==
    IF item.t = "object" /\ \E i \in 1..Len(item.v) : item.v[i].k = key
    THEN item.v[CHOOSE i \in 1..Len(item.v) :
                    /\ item.v[i].k = key
                    /\ \A j \in (i + 1)..Len(item.v) : item.v[j].k # key].v
    ELSE JUndef

----------------------------------------------------------------------------
(* Serialization of the collection *)

KeyDomain  == <<"d","o","m","a","i","n">>
KeyEnabled == <<"e","n","a","b","l","e","d">>

\* a stored entry as the object JSON.stringify sees
EntryObj(e) == JObj(<<Member(KeyDomain, JStr(e.domain)), Member(KeyEnabled, JBool(e.enabled))>>)

\* serialize: (value) => JSON.stringify(value)
serialize(value) == Stringify(JArr([i \in 1..Len(value) |-> EntryObj(value[i])]))

\* persisted values: nothing, null, a string, a number
PUndefined == [kind |-> "undefined", text |-> <<>>]
PNull      == [kind |-> "null", text |-> <<>>]
PString(cs) == [kind |-> "string", text |-> cs]
PNumber(n) == [kind |-> "number", text |-> NumStr(n)]

\* String(text)
ToStr(text) ==
    IF text.kind = "undefined" THEN LitUndefined
    ELSE IF text.kind = "null" THEN LitNull
    ELSE text.text

\* what deserialize hands back: a collection, or the error it lets through
Returned(value) == [threw |-> FALSE, value |-> value]
Thrown == [threw |-> TRUE, value |-> <<>>]

\* typeof item === 'object' && typeof item.domain === 'string' &&
\* typeof item.enabled === 'boolean', item being truthy
KeepItem(item) ==
    /\ item.t \in {"object", "array"}
    /\ Get(item, KeyDomain).t = "string"
    /\ Get(item, KeyEnabled).t = "boolean"

RECURSIVE FilterItems(_)
FilterItems(es) ==
    IF es = <<>> THEN <<>>
    ELSE IF KeepItem(Head(es)) THEN <<Head(es)>> \o FilterItems(Tail(es))
    ELSE FilterItems(Tail(es))

\* parsed.map(domain => ({ domain, enabled: true }))
Migrate(es) ==
    [i \in 1..Len(es) |->
        JObj(<<Member(KeyDomain, es[i]), Member(KeyEnabled, JBool(TRUE))>>)]

\* variants of FromParsed with a plausible slip: a SyntaxError is not
\* caught; the legacy format is not migrated
FromParsedNoCatch(p) ==
    IF ~p.ok THEN Thrown
    ELSE IF p.val.t # "array" THEN Returned(<<>>)
    ELSE IF Len(p.val.v) > 0 /\ p.val.v[1].t = "string" THEN Returned(Migrate(p.val.v))
    ELSE Returned(FilterItems(p.val.v))

FromParsedNoMigration(p) ==
    IF ~p.ok THEN Returned(<<>>)
    ELSE IF p.val.t # "array" THEN Returned(<<>>)
    ELSE Returned(FilterItems(p.val.v))

\* the try block of deserialize, p being the outcome of JSON.parse
FromParsed(p) ==
    IF ~p.ok THEN Returned(<<>>)
    ELSE IF p.val.t # "array" THEN Returned(<<>>)
    ELSE IF Len(p.val.v) > 0 /\ p.val.v[1].t = "string" THEN Returned(Migrate(p.val.v))
    ELSE Returned(FilterItems(p.val.v))

\* deserialize: (text: unknown) => BlockedDomain[]
deserialize(text) ==
    IF text.kind \in {"undefined", "null"} THEN Returned(<<>>)
    ELSE IF ToStr(text) = LitUndefined \/ ToStr(text) = LitNull \/ Trim(ToStr(text)) = <<>>
    THEN Returned(<<>>)
    ELSE FromParsed(JsonParse(ToStr(text)))

----------------------------------------------------------------------------
(* Block List Store *)

ErrNone      == "none"
ErrInvalid   == "Invalid domain format"
ErrDuplicate == "Domain already exists"

Entry(d, e) == [domain |-> d, enabled |-> e]

\* currentDomains.some(d => d.domain === x)
Has(cur, x) == \E i \in 1..Len(cur) : cur[i].domain = x

\* Array.prototype.filter
RECURSIVE Filter(_, _)
Filter(cur, x) ==
    IF cur = <<>> THEN <<>>
    ELSE IF Head(cur).domain # x THEN <<Head(cur)>> \o Filter(Tail(cur), x)
    ELSE Filter(Tail(cur), x)

\* variants of AddUpdater with a plausible slip: the new entry starts
\* disabled; the duplicate check is missing; a duplicate re-enables the entry
AddUpdaterDisabled(cur, normalized) ==
    IF Has(cur, normalized)
    THEN [err |-> ErrDuplicate, value |-> cur]
    ELSE [err |-> ErrNone, value |-> Append(cur, Entry(normalized, FALSE))]

AddUpdaterNoDupCheck(cur, normalized) ==
    [err |-> ErrNone, value |-> Append(cur, Entry(normalized, TRUE))]

AddUpdaterReenable(cur, normalized) ==
    IF Has(cur, normalized)
    THEN [err |-> ErrNone,
          value |-> [i \in 1..Len(cur) |->
                        IF cur[i].domain = normalized
                        THEN Entry(normalized, TRUE) ELSE cur[i]]]
    ELSE [err |-> ErrNone, value |-> Append(cur, Entry(normalized, TRUE))]

\* the updater add hands to storage.set; err is the Error it throws
AddUpdater(cur, normalized) ==
    IF Has(cur, normalized)
    THEN [err |-> ErrDuplicate, value |-> cur]
    ELSE [err |-> ErrNone, value |-> Append(cur, Entry(normalized, TRUE))]

\* variant of AddRejects with a plausible slip: only emptiness is checked
AddRejectsEmptyOnly(normalized) == normalized = <<>>

\* the format check add makes before it calls storage.set
AddRejects(normalized) == normalized = <<>> \/ ~isValidDomain(normalized)

\* variant of RemoveUpdater with a plausible slip: the argument is normalized
RemoveUpdaterNormalizing(cur, domain) == Filter(cur, normalizeDomain(domain))

\* the updater remove hands to storage.set
RemoveUpdater(cur, domain) == Filter(cur, domain)

\* variant of ToggleUpdater with a plausible slip: it disables, never flips
ToggleUpdaterDisable(cur, domain) ==
    [i \in 1..Len(cur) |->
        IF cur[i].domain = domain THEN Entry(cur[i].domain, FALSE) ELSE cur[i]]

\* the updater toggle hands to storage.set
ToggleUpdater(cur, domain) ==
    [i \in 1..Len(cur) |->
        IF cur[i].domain = domain
        THEN Entry(cur[i].domain, ~cur[i].enabled)
        ELSE cur[i]]

\* blockedDomainsStorage.isBlocked on the snapshot cur
isBlocked(cur, domain) ==
    LET normalized == normalizeDomain(domain) IN
    IF Has(cur, normalized)
    THEN cur[CHOOSE i \in 1..Len(cur) :
                /\ cur[i].domain = normalized
                /\ \A j \in 1..(i - 1) : cur[j].domain # normalized].enabled
    ELSE FALSE

\* storage.get(): the current persisted collection
StorageGet == domains

\* storage.set(updater) committing the updater's value as one unit: the
\* collection, and its serialized form under the storage key
StorageSet(value) ==
    /\ domains' = value
    /\ persisted' = PString(serialize(value))

\* no mutation call is in flight
NoCalls == [base |-> <<>>, call |-> <<>>]

\* the popup as first rendered: useState('') and useState(null), and
\* useStorage giving the stored collection
PopupInit == [domainInput |-> <<>>, error |-> "null", blockedDomains |-> <<>>]

NoOp == [op |-> "none", arg |-> <<>>, err |-> ErrNone, pre |-> <<>>,
         wrote |-> FALSE, res |-> <<>>]

Done(op, arg, err, pre, wrote, res) ==
    [op |-> op, arg |-> arg, err |-> err, pre |-> pre, wrote |-> wrote, res |-> res]

MaxDomains == 3

\* blockedDomainsStorage.add(raw)
Add(raw) ==
    LET normalized == normalizeDomain(raw) IN
    IF AddRejects(normalized)
    THEN /\ lastOp' = Done("add", raw, ErrInvalid, domains, FALSE, normalized)
         /\ UNCHANGED <<domains, input, tabUrl, events, pending, navUrl, popup, calls, persisted>>
    ELSE LET r == AddUpdater(StorageGet, normalized) IN
         /\ r.err = ErrNone => Len(domains) < MaxDomains
         /\ IF r.err = ErrNone THEN StorageSet(r.value) ELSE UNCHANGED <<domains, persisted>>
         /\ lastOp' = Done("add", raw, r.err, domains, r.err = ErrNone, normalized)
         /\ UNCHANGED <<input, tabUrl, events, pending, navUrl, popup, calls>>

\* blockedDomainsStorage.remove(domain)
Remove(domain) ==
    /\ StorageSet(RemoveUpdater(StorageGet, domain))
    /\ lastOp' = Done("remove", domain, ErrNone, domains, TRUE, <<>>)
    /\ UNCHANGED <<input, tabUrl, events, pending, navUrl, popup, calls>>

\* blockedDomainsStorage.toggle(domain)
Toggle(domain) ==
    /\ StorageSet(ToggleUpdater(StorageGet, domain))
    /\ lastOp' = Done("toggle", domain, ErrNone, domains, TRUE, <<>>)
    /\ UNCHANGED <<input, tabUrl, events, pending, navUrl, popup, calls>>

----------------------------------------------------------------------------
(* Inputs *)

Sp     == <<" ">>
DomA   == <<"a",".","c","o","m">>
DomB   == <<"b",".","c","o">>
DomC   == <<"c",".","i","o">>
WwwA   == WwwPrefix \o DomA
Path   == <<"/","p">>

\* raw strings a caller hands to add: typed input or the active tab's URL
RawInputs ==
    { DomA,                                        \* a.com
      <<"A",".","C","o","m">>,                     \* A.Com
      SchemeHttps \o WwwA \o Path,                 \* https://www.a.com/p
      Sp \o DomA \o Slash \o Sp,                   \* " a.com/ "
      WwwPrefix \o WwwA,                           \* www.www.a.com
      DomB,                                        \* b.co
      SchemeHttp \o <<"B",".","c","o">> \o Slash,  \* http://B.co/
      DomC,                                        \* c.io
      <<>>,                                        \* empty
      Sp,                                          \* blank
      WwwPrefix,                                   \* www.
      <<"a">>,                                     \* no top-level label
      <<"-">> \o DomA,                             \* -a.com
      <<"a"," ">> \o DomB }                        \* "a b.co"

\* domains handed to remove and toggle
DomainArgs == { DomA, DomB, DomC, WwwA, <<"A",".","C","o","m">> }

Tabs == {1}

AboutBlank == <<"a","b","o","u","t",":","b","l","a","n","k">>

Init ==
    /\ domains = <<>>
    /\ lastOp = NoOp
    /\ input = <<>>
    /\ tabUrl = [t \in Tabs |-> AboutBlank]
    /\ events = {}
    /\ pending = {}
    /\ navUrl = [t \in Tabs |-> AboutBlank]
    /\ popup = PopupInit
    /\ calls = NoCalls
    /\ persisted = PUndefined

Next ==
    \/ \E raw \in RawInputs : Add(raw)
    \/ \E d \in DomainArgs : Remove(d)
    \/ \E d \in DomainArgs : Toggle(d)

Spec == Init /\ [][Next]_vars

----------------------------------------------------------------------------
(* Navigation Guard *)

SchemeSep       == <<":","/","/">>
ChromeScheme    == <<"c","h","r","o","m","e",":","/","/">>
ExtensionScheme == <<"c","h","r","o","m","e","-","e","x","t","e","n","s","i","o","n",":","/","/">>
AboutScheme     == <<"a","b","o","u","t",":">>
BlockedHtml     == <<"b","l","o","c","k","e","d",".","h","t","m","l">>

\* chrome.runtime.getURL('blocked.html'), the extension id being x
BlockedPage == ExtensionScheme \o <<"x">> \o Slash \o BlockedHtml

\* variant of Excluded with a plausible slip: chrome:// is not tested
ExcludedNoChrome(url) ==
    \/ StartsWith(url, ExtensionScheme)
    \/ StartsWith(url, AboutScheme)
    \/ Includes(url, BlockedHtml)

\* the exclusion filter at the head of checkAndBlockDomain
Excluded(url) ==
    \/ StartsWith(url, ChromeScheme)
    \/ StartsWith(url, ExtensionScheme)
    \/ StartsWith(url, AboutScheme)
    \/ Includes(url, BlockedHtml)

\* the listener filter {schemes: ['http', 'https']} of onCommitted
IsHttpUrl(url) ==
    StartsWith(ToLowerCase(url), SchemeHttp) \/ StartsWith(ToLowerCase(url), SchemeHttps)

\* index of the first character of s that is in cs, Len(s) + 1 when none is
FirstOf(s, cs) ==
    IF \E i \in 1..Len(s) : s[i] \in cs
    THEN CHOOSE i \in 1..Len(s) : s[i] \in cs /\ \A j \in 1..(i - 1) : s[j] \notin cs
    ELSE Len(s) + 1

\* index of the last occurrence of c in s, 0 when absent
LastIndexOf(s, c) ==
    IF \E i \in 1..Len(s) : s[i] = c
    THEN CHOOSE i \in 1..Len(s) : s[i] = c /\ \A j \in (i + 1)..Len(s) : s[j] # c
    ELSE 0

\* new URL(url): ok is FALSE when the constructor throws; hostname is the
\* host of the authority, lower-cased, without user info and port
ParseUrl(url) ==
    LET k == IF \E i \in 1..Len(url) : StartsWith(DropPrefix(url, i - 1), SchemeSep)
             THEN CHOOSE i \in 1..Len(url) :
                     /\ StartsWith(DropPrefix(url, i - 1), SchemeSep)
                     /\ \A j \in 1..(i - 1) : ~StartsWith(DropPrefix(url, j - 1), SchemeSep)
             ELSE 0
        rest == DropPrefix(url, k + Len(SchemeSep) - 1)
        authority == SubSeq(rest, 1, FirstOf(rest, {"/", "?", "#"}) - 1)
        hostport == DropPrefix(authority, LastIndexOf(authority, "@"))
        host == SubSeq(hostport, 1, FirstOf(hostport, {":"}) - 1)
    IN  IF k <= 1 THEN [ok |-> FALSE, hostname |-> <<>>]
        ELSE IF IsHttpUrl(url) /\ host = <<>> THEN [ok |-> FALSE, hostname |-> <<>>]
        ELSE [ok |-> TRUE, hostname |-> ToLowerCase(host)]

Committed(t, url, f) == [type |-> "committed", tab |-> t, url |-> url, frameId |-> f]
Updated(t, url) == [type |-> "updated", tab |-> t, url |-> url, frameId |-> 0]

\* outcome of one checkAndBlockDomain evaluation
Outcome(t, read, redirect) == [tab |-> t, read |-> read, redirect |-> redirect]

\* checkAndBlockDomain(url, tabId) up to its await of isBlocked; rest is
\* the set of events left once the one being handled is taken out
CheckStart(url, t, rest) ==
    IF Excluded(url) \/ ~ParseUrl(url).ok
    THEN /\ lastOp' = Done("check", url, ErrNone, domains, FALSE, Outcome(t, FALSE, FALSE))
         /\ events' = rest
         /\ UNCHANGED <<domains, input, tabUrl, pending, navUrl, popup, calls, persisted>>
    ELSE /\ pending' = pending \cup
                {[tab |-> t, url |-> url, domain |-> normalizeDomain(ParseUrl(url).hostname)]}
         /\ lastOp' = Done("await", url, ErrNone, domains, FALSE, Outcome(t, FALSE, FALSE))
         /\ events' = rest
         /\ UNCHANGED <<domains, input, tabUrl, navUrl, popup, calls, persisted>>

\* variant of CheckDecision with a plausible slip: any entry blocks, enabled or not
CheckDecisionAnyEntry(cur, domain) == Has(cur, normalizeDomain(domain))

\* const isBlocked = await blockedDomainsStorage.isBlocked(domain)
CheckDecision(cur, domain) == isBlocked(cur, domain)

\* checkAndBlockDomain from the store read on: chrome.tabs.update on a hit;
\* the redirect makes the browser report the tab as loading the blocked page
CheckFinish(p) ==
    /\ p \in pending
    /\ pending' = pending \ {p}
    /\ IF CheckDecision(StorageGet, p.domain)
       THEN /\ tabUrl' = [tabUrl EXCEPT ![p.tab] = BlockedPage]
            /\ events' = events \cup {Updated(p.tab, BlockedPage)}
            /\ lastOp' = Done("check", p.url, ErrNone, domains, FALSE, Outcome(p.tab, TRUE, TRUE))
       ELSE /\ lastOp' = Done("check", p.url, ErrNone, domains, FALSE, Outcome(p.tab, TRUE, FALSE))
            /\ UNCHANGED <<tabUrl, events>>
    /\ UNCHANGED <<domains, input, navUrl, popup, calls, persisted>>

\* variant of OnCommitted with a plausible slip: the frame is not tested
OnCommittedAnyFrame(e) ==
    /\ e \in events
    /\ e.type = "committed"
    /\ CheckStart(e.url, e.tab, events \ {e})

\* the chrome.webNavigation.onCommitted listener
OnCommitted(e) ==
    /\ e \in events
    /\ e.type = "committed"
    /\ IF e.frameId = 0
       THEN CheckStart(e.url, e.tab, events \ {e})
       ELSE /\ events' = events \ {e}
            /\ lastOp' = Done("ignored", e.url, ErrNone, domains, FALSE, Outcome(e.tab, FALSE, FALSE))
            /\ UNCHANGED <<domains, input, tabUrl, pending, navUrl, popup, calls, persisted>>

\* the chrome.tabs.onUpdated listener, for changeInfo.status = 'loading'
OnUpdated(e) ==
    /\ e \in events
    /\ e.type = "updated"
    /\ IF e.url # <<>>
       THEN CheckStart(e.url, e.tab, events \ {e})
       ELSE /\ events' = events \ {e}
            /\ lastOp' = Done("ignored", e.url, ErrNone, domains, FALSE, Outcome(e.tab, FALSE, FALSE))
            /\ UNCHANGED <<domains, input, tabUrl, pending, navUrl, popup, calls, persisted>>

MaxInFlight == 2

InFlight == Cardinality(events) + Cardinality(pending)

\* the browser commits a main-frame navigation of tab t to url: the tab
\* reports loading, and onCommitted fires when the scheme passes its filter
Navigate(t, url) ==
    /\ InFlight + 2 <= MaxInFlight
    /\ tabUrl' = [tabUrl EXCEPT ![t] = url]
    /\ events' = events \cup {Updated(t, url)}
                    \cup (IF IsHttpUrl(url) THEN {Committed(t, url, 0)} ELSE {})
    /\ navUrl' = [navUrl EXCEPT ![t] = url]
    /\ lastOp' = Done("navigate", url, ErrNone, domains, FALSE, Outcome(t, FALSE, FALSE))
    /\ UNCHANGED <<domains, input, pending, popup, calls, persisted>>

\* the browser commits a navigation of a subframe (frameId 1) of tab t
SubframeNavigate(t, url) ==
    /\ InFlight + 1 <= MaxInFlight
    /\ IsHttpUrl(url)
    /\ events' = events \cup {Committed(t, url, 1)}
    /\ lastOp' = Done("subframe", url, ErrNone, domains, FALSE, Outcome(t, FALSE, FALSE))
    /\ UNCHANGED <<domains, input, tabUrl, pending, navUrl, popup, calls, persisted>>

UrlAPage    == <<"h","t","t","p","s",":","/","/","a",".","c","o","m","/","p","?","q">>
UrlABlocked == <<"h","t","t","p","s",":","/","/","a",".","c","o","m","/","b","l","o","c","k","e","d",".","h","t","m","l">>
UrlWwwA     == <<"h","t","t","p",":","/","/","w","w","w",".","a",".","c","o","m","/">>
UrlWwwWwwA  == <<"h","t","t","p","s",":","/","/","w","w","w",".","w","w","w",".","a",".","c","o","m","/">>
UrlB        == <<"h","t","t","p","s",":","/","/","b",".","c","o","/">>
UrlChrome   == <<"c","h","r","o","m","e",":","/","/","s","e","t","t","i","n","g","s">>

NavUrls == { UrlAPage, UrlABlocked, UrlWwwA, UrlWwwWwwA, UrlB, UrlChrome }

SubframeUrls == { UrlAPage }

\* what the popup adds and toggles while navigations are evaluated
GuardRawInputs == { DomA, WwwPrefix \o WwwA }

GuardDomainArgs == { DomA, WwwA }

NextGuard ==
    \/ \E raw \in GuardRawInputs : Add(raw)
    \/ \E d \in GuardDomainArgs : Toggle(d)
    \/ \E t \in Tabs, url \in NavUrls : Navigate(t, url)
    \/ \E t \in Tabs, url \in SubframeUrls : SubframeNavigate(t, url)
    \/ \E e \in events : OnCommitted(e)
    \/ \E e \in events : OnUpdated(e)
    \/ \E p \in pending : CheckFinish(p)

SpecGuard == Init /\ [][NextGuard]_vars

----------------------------------------------------------------------------
(* The two triggers racing on one tab, the collection being left alone *)

\* the browser reports exactly one of the two events for a navigation of
\* tab t to url: the tab update alone, or the commit alone
NavigateSingle(t, url, type) ==
    /\ InFlight + 2 <= MaxInFlight
    /\ type = "committed" => IsHttpUrl(url)
    /\ tabUrl' = [tabUrl EXCEPT ![t] = url]
    /\ navUrl' = [navUrl EXCEPT ![t] = url]
    /\ events' = events \cup
          {IF type = "committed" THEN Committed(t, url, 0) ELSE Updated(t, url)}
    /\ lastOp' = Done("navigate", url, ErrNone, domains, FALSE, Outcome(t, FALSE, FALSE))
    /\ UNCHANGED <<domains, input, pending, popup, calls, persisted>>

\* collections add and toggle lead to
RaceCollections ==
    { <<>>,
      <<Entry(DomA, TRUE)>>,
      <<Entry(DomA, FALSE)>>,
      <<Entry(WwwA, TRUE)>>,
      <<Entry(DomB, FALSE), Entry(DomA, TRUE)>> }

InitRace ==
    /\ domains \in RaceCollections
    /\ lastOp = NoOp
    /\ input = <<>>
    /\ tabUrl = [t \in Tabs |-> AboutBlank]
    /\ events = {}
    /\ pending = {}
    /\ navUrl = [t \in Tabs |-> AboutBlank]
    /\ popup = PopupInit
    /\ calls = NoCalls
    /\ persisted = PString(serialize(domains))

NextRace ==
    \/ \E t \in Tabs, url \in NavUrls : Navigate(t, url)
    \/ \E t \in Tabs, url \in NavUrls, type \in {"committed", "updated"} :
          NavigateSingle(t, url, type)
    \/ \E e \in events : OnCommitted(e)
    \/ \E e \in events : OnUpdated(e)
    \/ \E p \in pending : CheckFinish(p)

SpecRace == InitRace /\ [][NextRace]_vars

----------------------------------------------------------------------------
(* Popup: live validation and the typed-input add path *)

\* variant of validationError with a plausible slip: no test for an
\* existing entry
validationErrorNoExists(domainInput, blockedDomains) ==
    IF Trim(domainInput) = <<>> THEN "null"
    ELSE IF ~isValidDomain(normalizeDomain(domainInput)) THEN "invalidDomain"
    ELSE "null"

\* the validationError memo of the popup; "null" stands for null
validationError(domainInput, blockedDomains) ==
    IF Trim(domainInput) = <<>> THEN "null"
    ELSE IF Has(blockedDomains, normalizeDomain(domainInput)) THEN "domainExists"
    ELSE IF ~isValidDomain(normalizeDomain(domainInput)) THEN "invalidDomain"
    ELSE "null"

\* onChange of the input field: setDomainInput(raw) and setError(null)
SetDomainInput(raw) ==
    /\ raw # popup.domainInput
    /\ popup' = [popup EXCEPT !.domainInput = raw, !.error = "null"]
    /\ lastOp' = Done("setDomainInput", raw, ErrNone, domains, FALSE, <<>>)
    /\ UNCHANGED <<domains, input, tabUrl, events, pending, navUrl, calls, persisted>>

\* useStorage: the live update hands the stored collection to the popup
StorageChanged ==
    /\ popup.blockedDomains # domains
    /\ popup' = [popup EXCEPT !.blockedDomains = StorageGet]
    /\ lastOp' = Done("storageChanged", <<>>, ErrNone, domains, FALSE, <<>>)
    /\ UNCHANGED <<domains, input, tabUrl, events, pending, navUrl, calls, persisted>>

\* what handleAddDomain did: whether it called the store's add, and the
\* validationError it was rendered with
AddPath(called, validation) == [called |-> called, validation |-> validation]

\* handleAddDomain
HandleAddDomain ==
    LET raw == popup.domainInput
        verr == validationError(raw, popup.blockedDomains)
        normalized == normalizeDomain(raw)
        r == AddUpdater(StorageGet, normalized)
    IN
    IF Trim(raw) = <<>>
    THEN /\ lastOp' = Done("handleAddDomain", raw, ErrNone, popup.blockedDomains,
                           FALSE, AddPath(FALSE, verr))
         /\ UNCHANGED <<domains, input, tabUrl, events, pending, navUrl, popup, calls, persisted>>
    ELSE IF verr # "null"
    THEN /\ popup' = [popup EXCEPT !.error = verr]
         /\ lastOp' = Done("handleAddDomain", raw, ErrNone, popup.blockedDomains,
                           FALSE, AddPath(FALSE, verr))
         /\ UNCHANGED <<domains, input, tabUrl, events, pending, navUrl, calls, persisted>>
    ELSE IF AddRejects(normalized)
    THEN /\ popup' = [popup EXCEPT !.error = "invalidDomain"]
         /\ lastOp' = Done("handleAddDomain", raw, ErrInvalid, popup.blockedDomains,
                           FALSE, AddPath(TRUE, verr))
         /\ UNCHANGED <<domains, input, tabUrl, events, pending, navUrl, calls, persisted>>
    ELSE IF r.err # ErrNone
    THEN /\ popup' = [popup EXCEPT !.error = "domainExists"]
         /\ lastOp' = Done("handleAddDomain", raw, r.err, popup.blockedDomains,
                           FALSE, AddPath(TRUE, verr))
         /\ UNCHANGED <<domains, input, tabUrl, events, pending, navUrl, calls, persisted>>
    ELSE /\ Len(domains) < MaxDomains
         /\ StorageSet(r.value)
         /\ popup' = [popup EXCEPT !.domainInput = <<>>, !.error = "null"]
         /\ lastOp' = Done("handleAddDomain", raw, ErrNone, popup.blockedDomains,
                           TRUE, AddPath(TRUE, verr))
         /\ UNCHANGED <<input, tabUrl, events, pending, navUrl, calls>>

\* what the user types into the field
PopupInputs ==
    { DomA, Sp \o <<"A",".","C","o","m">> \o Slash, DomB, <<"a">>, Sp, WwwPrefix }

\* handleAddCurrentPage hands the active tab's URL to add
CurrentPageUrls == { SchemeHttps \o WwwA \o Path }

\* the domains of the entries the popup lists, each with its buttons
ListedDomains == {popup.blockedDomains[i].domain : i \in 1..Len(popup.blockedDomains)}

NextPopup ==
    \/ \E raw \in PopupInputs : SetDomainInput(raw)
    \/ HandleAddDomain
    \/ StorageChanged
    \/ \E raw \in CurrentPageUrls : Add(raw)
    \/ \E d \in ListedDomains : Remove(d)
    \/ \E d \in ListedDomains : Toggle(d)

SpecPopup == Init /\ [][NextPopup]_vars

----------------------------------------------------------------------------
(* Mutation calls racing on the store *)

NumCalls == 2

Calls == 1..NumCalls

\* variant of CasOk with a plausible slip: the write is not conditional
CasBlind(snap) == TRUE

\* storage.set commits only if the stored value is still the one it read
CasOk(snap) == StorageGet = snap

\* what the updater of call c makes of the collection cur
Updated_(c, cur) ==
    IF c.op = "add" THEN AddUpdater(cur, normalizeDomain(c.arg))
    ELSE IF c.op = "remove" THEN [err |-> ErrNone, value |-> RemoveUpdater(cur, c.arg)]
    ELSE [err |-> ErrNone, value |-> ToggleUpdater(cur, c.arg)]

Finish(i, err, pre, wrote) ==
    /\ calls' = [calls EXCEPT !.call[i].pc = "done", !.call[i].err = err]
    /\ lastOp' = Done(calls.call[i].op, calls.call[i].arg, err, pre, wrote, <<>>)

\* add, remove or toggle up to its call of storage.set
CallStart(i) ==
    LET c == calls.call[i] IN
    /\ c.pc = "start"
    /\ IF c.op = "add" /\ AddRejects(normalizeDomain(c.arg))
       THEN Finish(i, ErrInvalid, domains, FALSE)
       ELSE /\ calls' = [calls EXCEPT !.call[i].pc = "read"]
            /\ UNCHANGED lastOp
    /\ UNCHANGED <<domains, input, tabUrl, events, pending, navUrl, popup, persisted>>

\* storage.set reads the collection and runs the updater on it
CallRead(i) ==
    LET c == calls.call[i]
        r == Updated_(c, StorageGet)
    IN
    /\ c.pc = "read"
    /\ IF r.err # ErrNone
       THEN Finish(i, r.err, domains, FALSE)
       ELSE /\ calls' = [calls EXCEPT !.call[i].pc = "write",
                                      !.call[i].snap = StorageGet,
                                      !.call[i].value = r.value]
            /\ UNCHANGED lastOp
    /\ UNCHANGED <<domains, input, tabUrl, events, pending, navUrl, popup, persisted>>

\* storage.set commits the updater's value, or starts over on a conflict
CallWrite(i) ==
    LET c == calls.call[i] IN
    /\ c.pc = "write"
    /\ IF CasOk(c.snap)
       THEN /\ StorageSet(c.value)
            /\ Finish(i, ErrNone, c.snap, TRUE)
       ELSE /\ calls' = [calls EXCEPT !.call[i].pc = "read", !.call[i].retried = TRUE]
            /\ UNCHANGED <<domains, lastOp, persisted>>
    /\ UNCHANGED <<input, tabUrl, events, pending, navUrl, popup>>

\* the mutations that race
RaceOps ==
    { [op |-> "add", arg |-> DomA],
      [op |-> "add", arg |-> SchemeHttps \o WwwA \o Path],
      [op |-> "add", arg |-> DomB],
      [op |-> "add", arg |-> <<"a">>],
      [op |-> "toggle", arg |-> DomA],
      [op |-> "remove", arg |-> DomA] }

NewCall(o) ==
    [op |-> o.op, arg |-> o.arg, pc |-> "start", snap |-> <<>>, value |-> <<>>,
     err |-> ErrNone, retried |-> FALSE]

\* collections add and toggle lead to
BaseCollections ==
    { <<>>, <<Entry(DomA, TRUE)>>, <<Entry(DomA, FALSE), Entry(DomB, TRUE)>> }

InitCalls ==
    /\ domains \in BaseCollections
    /\ lastOp = NoOp
    /\ input = <<>>
    /\ tabUrl = [t \in Tabs |-> AboutBlank]
    /\ events = {}
    /\ pending = {}
    /\ navUrl = [t \in Tabs |-> AboutBlank]
    /\ popup = PopupInit
    /\ \E os \in [Calls -> RaceOps] :
          calls = [base |-> domains, call |-> [i \in Calls |-> NewCall(os[i])]]
    /\ persisted = PString(serialize(domains))

NextCalls ==
    \/ \E i \in Calls : CallStart(i)
    \/ \E i \in Calls : CallRead(i)
    \/ \E i \in Calls : CallWrite(i)

SpecCalls == InitCalls /\ [][NextCalls]_vars

----------------------------------------------------------------------------
(* Loading the persisted value, and mutations after it *)

MaxElems == 2

\* every entry of a deserialized collection has the two fields of
\* BlockedDomain with their types
WellTyped(value) ==
    \A i \in 1..Len(value) :
        /\ Get(value[i], KeyDomain).t = "string"
        /\ Get(value[i], KeyEnabled).t = "boolean"

\* the collection the store works on: the two fields the program reads
ToEntries(value) ==
    [i \in 1..Len(value) |->
        Entry(Get(value[i], KeyDomain).v, Get(value[i], KeyEnabled).v)]

\* the store reads the persisted value through deserialize
Load ==
    LET r == deserialize(persisted) IN
    /\ lastOp.op = "none"
    /\ lastOp' = Done("deserialize", ToStr(persisted),
                      IF r.threw THEN "threw" ELSE ErrNone, <<>>, FALSE, r)
    /\ domains' = IF ~r.threw /\ WellTyped(r.value) THEN ToEntries(r.value) ELSE domains
    /\ UNCHANGED <<input, tabUrl, events, pending, navUrl, popup, calls, persisted>>

\* the collection is loaded and holds entries of the declared type only
Loaded ==
    /\ lastOp.op # "none"
    /\ lastOp.op = "deserialize" => (~lastOp.res.threw /\ WellTyped(lastOp.res.value))

ObjA     == JObj(<<Member(KeyDomain, JStr(DomA)), Member(KeyEnabled, JBool(TRUE))>>)
ObjBOff  == JObj(<<Member(KeyDomain, JStr(DomB)), Member(KeyEnabled, JBool(FALSE))>>)
ObjNum   == JObj(<<Member(KeyDomain, JNum(5)), Member(KeyEnabled, JBool(TRUE))>>)
ObjNoFlag == JObj(<<Member(KeyDomain, JStr(DomA))>>)
ObjExtra == JObj(<<Member(KeyDomain, JStr(DomC)), Member(KeyEnabled, JBool(TRUE)),
                   Member(<<"x">>, JNum(1))>>)

\* what the elements of a persisted array are drawn from
ElemValues ==
    { JStr(DomA), JStr(DomB), JNum(5), JNull, JArr(<<>>),
      ObjA, ObjBOff, ObjNum, ObjNoFlag, ObjExtra }

RECURSIVE ElemSeqs(_)
ElemSeqs(n) ==
    IF n = 0 THEN {<<>>}
    ELSE ElemSeqs(n - 1) \cup {Append(es, e) : es \in ElemSeqs(n - 1), e \in ElemValues}

PersistedInputs ==
    {PString(Stringify(JArr(es))) : es \in ElemSeqs(MaxElems)}
        \cup { PUndefined, PNull, PNumber(5),
               PString(LitUndefined), PString(LitNull), PString(<<>>), PString(<<" ", "\n">>),
               PString(<<"n","o","t"," ","j","s","o","n">>),
               PString(<<" ","n","u","l","l"," ">>),
               PString(<<"5">>),
               PString(<<"{","}">>),
               PString(<<"\"","a",".","c","o","m","\"">>),
               PString(<<"["," ","\"","a",".","c","o","m","\""," ",","," ","\"","b",".","c","o","\""," ","]">>),
               PString(<<"[","\"","a",".","c","o","m","\"">>),
               PString(<<"[","\"","a",".","c","o","m","\"",",","]">>),
               PString(<<"[","{","\"","d","o","m","a","i","n","\"",":","\"","a",".","c","o","m","\"",",","\"","e","n","a","b","l","e","d","\"",":","t","r","u","e","}","}","]">>) }

InitPersist ==
    /\ persisted \in PersistedInputs
    /\ input = persisted
    /\ domains = <<>>
    /\ lastOp = NoOp
    /\ tabUrl = [t \in Tabs |-> AboutBlank]
    /\ events = {}
    /\ pending = {}
    /\ navUrl = [t \in Tabs |-> AboutBlank]
    /\ popup = PopupInit
    /\ calls = NoCalls

NextPersist ==
    \/ Load
    \/ Loaded /\ Add(SchemeHttps \o WwwA \o Path)
    \/ Loaded /\ Remove(DomA)
    \/ Loaded /\ Toggle(DomA)

SpecPersist == InitPersist /\ [][NextPersist]_vars

----------------------------------------------------------------------------
(* The Domain Rules applied to drawn inputs *)

MaxPieces == 3

\* the pieces raw inputs are made of
Pieces ==
    { Sp, SchemeHttp, <<"H","T","T","P","S",":","/","/">>, WwwPrefix,
      <<"a",".","c","o">>, <<"B">>, Slash, <<".">> }

RECURSIVE Concats(_)
Concats(n) ==
    IF n = 0 THEN {<<>>}
    ELSE Concats(n - 1) \cup {s \o p : s \in Concats(n - 1), p \in Pieces}

NormInputs == Concats(MaxPieces)

InitNorm ==
    /\ domains = <<>>
    /\ lastOp = NoOp
    /\ input \in NormInputs
    /\ tabUrl = [t \in Tabs |-> AboutBlank]
    /\ events = {}
    /\ pending = {}
    /\ navUrl = [t \in Tabs |-> AboutBlank]
    /\ popup = PopupInit
    /\ calls = NoCalls
    /\ persisted = PUndefined

\* normalizeDomain(input)
ApplyNormalize ==
    /\ lastOp.op = "none"
    /\ lastOp' = Done("normalizeDomain", input, ErrNone, <<>>, FALSE,
                      normalizeDomain(input))
    /\ UNCHANGED <<domains, input, tabUrl, events, pending, navUrl, popup, calls, persisted>>

NextNorm == ApplyNormalize

SpecNorm == InitNorm /\ [][NextNorm]_vars

----------------------------------------------------------------------------
(* isValidDomain applied to drawn inputs *)

MaxLabels == 3

Repeat(c, n) == [i \in 1..n |-> c]

\* labels of 63 and 64 characters
Label63 == Repeat("a", MaxLabelLen)
Label64 == Repeat("a", MaxLabelLen + 1)

\* the labels inputs are made of
LabelPieces ==
    { <<"a">>, <<"c","O">>, <<"1">>, <<"-","a">>, <<"a","-">>, <<"a","-","b">>,
      <<>>, <<"a","_">>, Label63, Label64 }

\* the labels of ls joined by dots
RECURSIVE Join(_)
Join(ls) ==
    IF Len(ls) = 1 THEN ls[1] ELSE ls[1] \o <<".">> \o Join(Tail(ls))

RECURSIVE LabelSeqs(_)
LabelSeqs(n) ==
    IF n = 1 THEN {<<l>> : l \in LabelPieces}
    ELSE LabelSeqs(n - 1) \cup {Append(ls, l) : ls \in LabelSeqs(n - 1), l \in LabelPieces}

\* a name of 253 characters and one of 254, each label within 63
Name253 == Join(<<Label63, Label63, Label63, Repeat("a", 61)>>)
Name254 == Join(<<Label63, Label63, Label63, Repeat("a", 62)>>)

ExampleCom     == <<"e","x","a","m","p","l","e",".","c","o","m">>
SubExampleCoUk == <<"s","u","b",".","e","x","a","m","p","l","e",".","c","o",".","u","k">>
ExampleNoTld   == <<"e","x","a","m","p","l","e">>
BadHyphenCom   == <<"-","b","a","d",".","c","o","m">>

ValidInputs ==
    {Join(ls) : ls \in LabelSeqs(MaxLabels)}
        \cup {Name253, Name254, ExampleCom, SubExampleCoUk, ExampleNoTld, BadHyphenCom}

InitValid ==
    /\ domains = <<>>
    /\ lastOp = NoOp
    /\ input \in ValidInputs
    /\ tabUrl = [t \in Tabs |-> AboutBlank]
    /\ events = {}
    /\ pending = {}
    /\ navUrl = [t \in Tabs |-> AboutBlank]
    /\ popup = PopupInit
    /\ calls = NoCalls
    /\ persisted = PUndefined

\* isValidDomain(input)
ApplyIsValid ==
    /\ lastOp.op = "none"
    /\ lastOp' = Done("isValidDomain", input, ErrNone, <<>>, FALSE, isValidDomain(input))
    /\ UNCHANGED <<domains, input, tabUrl, events, pending, navUrl, popup, calls, persisted>>

NextValid == ApplyIsValid

SpecValid == InitValid /\ [][NextValid]_vars

----------------------------------------------------------------------------
(* Properties of the Block List Store *)

\* the entries of cur whose domain is x, as indices
IndicesOf(cur, x) == {i \in 1..Len(cur) : cur[i].domain = x}

\* what add computes from its raw argument, written out from the primitives
NormArg == normalizeDomain(lastOp.arg)
ArgWellFormed == NormArg # <<>> /\ isValidDomain(NormArg)

\* C1: after add(d) of a valid d that was not yet in the collection,
\* the add has succeeded, the new entry is present with enabled = TRUE and
\* isBlocked(d) is TRUE
C1_AddThenBlocked ==
    (lastOp.op = "add" /\ ArgWellFormed /\ IndicesOf(lastOp.pre, NormArg) = {})
        => /\ lastOp.err = ErrNone
           /\ \E i \in 1..Len(domains) : domains[i] = Entry(NormArg, TRUE)
           /\ isBlocked(domains, lastOp.arg)

\* an add of a differently spelled raw input succeeded on a non-empty collection
C1_Witness ==
    /\ lastOp.op = "add"
    /\ lastOp.err = ErrNone
    /\ lastOp.arg # NormArg
    /\ Len(lastOp.pre) >= 1
    /\ \E i \in 1..Len(lastOp.pre) : ~lastOp.pre[i].enabled

\* C4: the collection holds at most one entry per distinct domain value
C4_UniqueDomains ==
    \A i, j \in 1..Len(domains) :
        domains[i].domain = domains[j].domain => i = j

\* a second spelling of a stored domain was offered to add, and the
\* collection holds several entries
C4_Witness ==
    /\ lastOp.op = "add"
    /\ lastOp.arg # NormArg
    /\ IndicesOf(lastOp.pre, NormArg) # {}
    /\ Len(domains) >= 2

\* canonical form: lowercase, no scheme, no www. prefix, no path, no slash
Canonical(d) ==
    /\ d = ToLowerCase(d)
    /\ ~StartsWith(d, SchemeHttp)
    /\ ~StartsWith(d, SchemeHttps)
    /\ ~StartsWith(d, WwwPrefix)
    /\ \A i \in 1..Len(d) : d[i] # "/"

\* C5: the domain of every stored entry is in canonical form
C5_StoredCanonical ==
    \A i \in 1..Len(domains) : Canonical(domains[i].domain)

\* C7: add of an already present normalized domain fails with the duplicate
\* error and leaves the collection, the existing flag included, unchanged
C7_DuplicateRejected ==
    (lastOp.op = "add" /\ ArgWellFormed /\ IndicesOf(lastOp.pre, NormArg) # {})
        => /\ lastOp.err = ErrDuplicate
           /\ domains = lastOp.pre

\* a duplicate add, differently spelled, met a disabled entry
C7_Witness ==
    /\ lastOp.op = "add"
    /\ lastOp.err = ErrDuplicate
    /\ lastOp.arg # NormArg
    /\ \E i \in 1..Len(lastOp.pre) :
          lastOp.pre[i].domain = NormArg /\ ~lastOp.pre[i].enabled

\* C8: add of an input whose normalized value is empty or ill-formed fails
\* with the format error, writes nothing and leaves the collection unchanged,
\* whatever the collection holds
C8_InvalidRejected ==
    (lastOp.op = "add" /\ ~ArgWellFormed)
        => /\ lastOp.err = ErrInvalid
           /\ ~lastOp.wrote
           /\ domains = lastOp.pre

\* a non-empty ill-formed input was rejected on a non-empty collection
C8_Witness ==
    /\ lastOp.op = "add"
    /\ lastOp.err = ErrInvalid
    /\ NormArg # <<>>
    /\ Len(lastOp.pre) >= 1

\* pre without its element at index k
Without(pre, k) ==
    [j \in 1..(Len(pre) - 1) |-> IF j < k THEN pre[j] ELSE pre[j + 1]]

\* C9: remove(domain) is a no-op without error when no entry has exactly
\* that domain; otherwise it deletes exactly that entry and keeps the
\* others, their flags and their order
C9_RemoveFrame ==
    lastOp.op = "remove"
        => /\ lastOp.err = ErrNone
           /\ IndicesOf(lastOp.pre, lastOp.arg) = {} => domains = lastOp.pre
           /\ \A k \in IndicesOf(lastOp.pre, lastOp.arg) :
                 domains = Without(lastOp.pre, k)

\* remove deleted the middle entry of three, a disabled entry remaining
C9_Witness ==
    /\ lastOp.op = "remove"
    /\ Len(lastOp.pre) = 3
    /\ lastOp.pre[2].domain = lastOp.arg
    /\ Len(domains) = 2
    /\ ~domains[2].enabled

\* a single toggle flips the flag of the entry with that domain only
ToggleFrame ==
    lastOp.op = "toggle"
        => /\ Len(domains) = Len(lastOp.pre)
           /\ \A i \in 1..Len(domains) :
                 /\ domains[i].domain = lastOp.pre[i].domain
                 /\ domains[i].enabled =
                       IF lastOp.pre[i].domain = lastOp.arg
                       THEN ~lastOp.pre[i].enabled
                       ELSE lastOp.pre[i].enabled
           /\ IndicesOf(lastOp.pre, lastOp.arg) = {} => domains = lastOp.pre

\* a toggle that directly follows a toggle of the same domain restores the
\* collection the first one started from
ToggleTwice ==
    (lastOp.op = "toggle" /\ lastOp'.op = "toggle" /\ lastOp'.arg = lastOp.arg
        /\ lastOp'.pre = domains)
            => domains' = lastOp.pre

\* C10: toggle twice in succession on one domain restores the collection;
\* one toggle flips that entry's flag only, keeps every other entry and the
\* order, and is a no-op when the domain is absent
C10_Toggle == []ToggleFrame /\ [][ToggleTwice]_vars

\* a toggle re-enabled an entry that an earlier toggle had disabled, in a
\* collection with other entries
C10_Witness ==
    /\ lastOp.op = "toggle"
    /\ Len(lastOp.pre) >= 2
    /\ \E i \in 1..Len(lastOp.pre) :
          /\ lastOp.pre[i].domain = lastOp.arg
          /\ ~lastOp.pre[i].enabled
          /\ domains[i].enabled

----------------------------------------------------------------------------
(* Properties of the Domain Rules *)

Chars == AlphaNum \cup WhiteSpace \cup {".", "/", ":", "-"}

IsString(s) == DOMAIN s = 1..Len(s) /\ \A i \in 1..Len(s) : s[i] \in Chars

\* C6: normalizeDomain returns a string for every input, the empty string
\* included, and normalizing its result again changes nothing
C6_NormalizeIdempotent ==
    lastOp.op = "normalizeDomain"
        => /\ IsString(lastOp.res)
           /\ normalizeDomain(lastOp.res) = lastOp.res

----------------------------------------------------------------------------
(* Properties of the Navigation Guard *)

\* the host of the evaluated URL after normalizeDomain
NormHost == normalizeDomain(ParseUrl(lastOp.arg).hostname)

\* the store the evaluation saw holds an enabled entry for the normalized host
EnabledEntryForHost ==
    \E i \in 1..Len(lastOp.pre) : lastOp.pre[i] = Entry(NormHost, TRUE)

\* C2: every evaluated navigation to an http/https URL whose normalized
\* host is the domain of an enabled entry redirects the tab to the blocked
\* page, whatever the path and query
C2_EnabledHostRedirected ==
    (lastOp.op = "check" /\ IsHttpUrl(lastOp.arg) /\ EnabledEntryForHost)
        => /\ lastOp.res.redirect
           /\ tabUrl[lastOp.res.tab] = BlockedPage

\* a redirect is issued only after a store read that found an enabled entry
\* for the normalized host
RedirectOnlyIfEnabled ==
    (lastOp.op = "check" /\ lastOp.res.redirect)
        => lastOp.res.read /\ EnabledEntryForHost

\* an evaluation that ends without a redirect changes neither a tab nor the
\* collection and dispatches nothing
NoRedirectNoEffect ==
    (lastOp'.op = "check" /\ ~lastOp'.res.redirect)
        => /\ tabUrl' = tabUrl
           /\ domains' = domains
           /\ events' \subseteq events

\* C3: an evaluation redirects only if its store read finds an enabled
\* entry for the normalized host; with a disabled entry or none it issues
\* no redirect and has no other side effect
C3_RedirectOnlyIfEnabled == []RedirectOnlyIfEnabled /\ [][NoRedirectNoEffect]_vars

\* the URL is internal to the browser or the extension, or is the blocked page
InternalUrl(url) ==
    \/ StartsWith(url, ChromeScheme)
    \/ StartsWith(url, ExtensionScheme)
    \/ StartsWith(url, AboutScheme)
    \/ url = BlockedPage

\* C12: for a chrome://, chrome-extension:// or about: URL and for the
\* extension's own blocked page an evaluation stops at the exclusion filter:
\* no store query and no redirect, whatever the collection holds
C12_InternalUrlSkipped ==
    [][\A e \in events :
          (e \notin events' /\ InternalUrl(e.url))
              => /\ pending' = pending
                 /\ tabUrl' = tabUrl
                 /\ lastOp'.op = "check"
                 /\ ~lastOp'.res.read
                 /\ ~lastOp'.res.redirect]_vars

\* the evaluation of the blocked page a redirect led to has ended while the
\* collection holds an enabled entry
C12_Witness ==
    /\ lastOp.op = "check"
    /\ lastOp.arg = BlockedPage
    /\ \E i \in 1..Len(lastOp.pre) : lastOp.pre[i].enabled

\* C13: a navigation-committed event of a subframe is ignored: it starts no
\* evaluation, so no store read and no redirect follow from it, even when
\* the URL's domain is an enabled entry
C13_SubframeIgnored ==
    [][\A e \in events :
          (e \notin events' /\ e.type = "committed" /\ e.frameId # 0)
              => /\ pending' = pending
                 /\ tabUrl' = tabUrl
                 /\ domains' = domains
                 /\ events' = events \ {e}
                 /\ ~lastOp'.res.read
                 /\ ~lastOp'.res.redirect]_vars

\* a subframe event for the URL of an enabled entry was handled
C13_Witness ==
    /\ lastOp.op = "ignored"
    /\ lastOp.arg \in SubframeUrls
    /\ \E i \in 1..Len(domains) :
          domains[i] = Entry(normalizeDomain(ParseUrl(lastOp.arg).hostname), TRUE)

\* no event waits for its listener and no evaluation waits for the store
Quiescent == events = {} /\ pending = {}

\* tab t was last navigated to an http/https URL whose normalized host is
\* the domain of an enabled entry
NavigatedToBlocked(t) ==
    /\ IsHttpUrl(navUrl[t])
    /\ \E i \in 1..Len(domains) :
          domains[i] = Entry(normalizeDomain(ParseUrl(navUrl[t]).hostname), TRUE)

\* C17: whether one trigger or both fire for a navigation to a URL of an
\* enabled blocked domain, and however the evaluations interleave, once
\* they have ended the tab is on the blocked page and the collection is
\* the one the navigation started with
C17_TriggersRace ==
    /\ [](\A t \in Tabs : (Quiescent /\ NavigatedToBlocked(t)) => tabUrl[t] = BlockedPage)
    /\ [][domains' = domains]_vars

\* the evaluation of the blocked page's own tab update issues no redirect
BlockedPageNotRedirected ==
    (lastOp.op = "check" /\ lastOp.arg = BlockedPage) => ~lastOp.res.redirect

\* a tab on the blocked page stays there until the browser navigates it
RestsOnBlockedPage ==
    \A t \in Tabs :
        (tabUrl[t] = BlockedPage /\ lastOp'.op # "navigate") => tabUrl'[t] = BlockedPage

\* C18: redirects do not loop: the tab update a redirect causes is stopped
\* by the exclusion filter, so after a navigation to a blocked domain the
\* tab comes to rest on the blocked page and no further redirect is issued
C18_NoRedirectLoop ==
    /\ []BlockedPageNotRedirected
    /\ [][RestsOnBlockedPage]_vars
    /\ [](\A t \in Tabs : NavigatedToBlocked(t) => (Quiescent => tabUrl[t] = BlockedPage))

----------------------------------------------------------------------------
(* Properties of isValidDomain *)

\* the characterisation of a well-formed domain: one or more dot-separated
\* labels of letters, digits and hyphens and a final alphabetic label of at
\* least 2 characters; at most 253 characters; each label of 1 to 63
\* characters, none starting or ending with a hyphen
WellFormedDomain(d) ==
    LET ls == Split(d, ".")
        n == Len(ls)
    IN  /\ d # <<>>
        /\ n >= 2
        /\ Len(d) <= 253
        /\ Len(ls[n]) >= 2
        /\ \A k \in 1..Len(ls[n]) : ls[n][k] \in Letters
        /\ \A i \in 1..n :
              /\ Len(ls[i]) \in 1..63
              /\ \A k \in 1..Len(ls[i]) : ls[i][k] \in AlphaNum \cup {"-"}
              /\ ls[i][1] # "-"
              /\ ls[i][Len(ls[i])] # "-"

\* C16: isValidDomain(d) is true exactly for the well-formed domains; it
\* accepts example.com and sub.example.co.uk and rejects example, -bad.com
\* and the empty string
C16_ValidExactly ==
    lastOp.op = "isValidDomain"
        => /\ lastOp.res = WellFormedDomain(lastOp.arg)
           /\ lastOp.arg \in {ExampleCom, SubExampleCoUk} => lastOp.res
           /\ lastOp.arg \in {ExampleNoTld, BadHyphenCom, <<>>} => ~lastOp.res

\* a name that only its total length of 254 makes ill-formed was rejected
C16_Witness ==
    /\ lastOp.op = "isValidDomain"
    /\ lastOp.arg = Name254
    /\ ~lastOp.res

----------------------------------------------------------------------------
(* Properties of the popup *)

\* blockedDomainsStorage.add of raw against the collection snap succeeds
AddSucceeds(raw, snap) ==
    /\ ~AddRejects(normalizeDomain(raw))
    /\ AddUpdater(snap, normalizeDomain(raw)).err = ErrNone

\* C20: for a non-blank input and the snapshot the popup was rendered with,
\* live validation reports no error exactly when add of that input against
\* that snapshot succeeds, and handleAddDomain does not call add while live
\* validation reports an error
C20_ValidationMatchesAdd ==
    lastOp.op = "handleAddDomain"
        => /\ Trim(lastOp.arg) # <<>>
                => ((lastOp.res.validation = "null") <=> AddSucceeds(lastOp.arg, lastOp.pre))
           /\ lastOp.res.called => lastOp.res.validation = "null"

\* handleAddDomain ran on a differently spelled duplicate of a listed
\* entry and did not call add
C20_Witness ==
    /\ lastOp.op = "handleAddDomain"
    /\ lastOp.arg # NormArg
    /\ lastOp.res.validation = "domainExists"
    /\ ~lastOp.res.called
    /\ Len(lastOp.pre) >= 2

----------------------------------------------------------------------------
(* Properties of racing mutations *)

\* the outcome of one mutation applied to cur as a whole
ApplyWhole(c, cur) ==
    IF c.op = "add" /\ AddRejects(normalizeDomain(c.arg))
    THEN [err |-> ErrInvalid, value |-> cur]
    ELSE LET r == Updated_(c, cur) IN
         IF r.err # ErrNone THEN [err |-> r.err, value |-> cur] ELSE r

\* the collection after the calls named by order ran one after the other
RECURSIVE InOrder(_, _)
InOrder(order, cur) ==
    IF order = <<>> THEN cur
    ELSE InOrder(Tail(order), ApplyWhole(calls.call[Head(order)], cur).value)

\* the error call order[k] gets when the calls run in that order
ErrInOrder(order, k) ==
    ApplyWhole(calls.call[order[k]], InOrder(SubSeq(order, 1, k - 1), calls.base)).err

Orders == {o \in [Calls -> Calls] : \A i, j \in Calls : o[i] = o[j] => i = j}

AllDone == calls.call # <<>> /\ \A i \in Calls : calls.call[i].pc = "done"

----------------------------------------------------------------------------
(* Properties of deserialization *)

\* what JSON.parse makes of the persisted value handed to deserialize
Parsed == JsonParse(ToStr(input))

\* missing, null, "undefined", "null", blank, unparseable, or not a sequence
Degenerate ==
    \/ input.kind \in {"undefined", "null"}
    \/ ToStr(input) \in {LitUndefined, LitNull}
    \/ \A i \in 1..Len(ToStr(input)) : ToStr(input)[i] \in WhiteSpace
    \/ ~Parsed.ok
    \/ Parsed.val.t # "array"

\* C14: deserialization lets no error through, and for a degenerate
\* persisted value it returns the empty collection
C14_DeserializeNeverFails ==
    lastOp.op = "deserialize"
        => /\ ~lastOp.res.threw
           /\ Degenerate => lastOp.res.value = <<>>

\* an array cut short, which JSON.parse rejects, was deserialized
C14_Witness ==
    /\ lastOp.op = "deserialize"
    /\ Len(lastOp.arg) > 1
    /\ lastOp.arg[1] = "["
    /\ ~Parsed.ok

\* the persisted value is a sequence of plain strings
Legacy ==
    /\ input.kind = "string"
    /\ Parsed.ok
    /\ Parsed.val.t = "array"
    /\ \A i \in 1..Len(Parsed.val.v) : Parsed.val.v[i].t = "string"

\* text is a JSON array of objects with a string domain and a boolean
\* enabled, one per entry of cur and in its order
ObjectForm(text, cur) ==
    LET p == JsonParse(text) IN
    /\ p.ok
    /\ p.val.t = "array"
    /\ Len(p.val.v) = Len(cur)
    /\ \A i \in 1..Len(cur) :
          /\ p.val.v[i].t = "object"
          /\ Get(p.val.v[i], KeyDomain) = JStr(cur[i].domain)
          /\ Get(p.val.v[i], KeyEnabled) = JBool(cur[i].enabled)

\* C15: a legacy value deserializes to one entry {domain: s, enabled: true}
\* per string s, in the same order; the value a later mutation writes back
\* is in the object form
C15_LegacyMigrated ==
    /\ (lastOp.op = "deserialize" /\ Legacy)
          => /\ ~lastOp.res.threw
             /\ Len(lastOp.res.value) = Len(Parsed.val.v)
             /\ \A i \in 1..Len(Parsed.val.v) :
                   lastOp.res.value[i] =
                      JObj(<<Member(KeyDomain, Parsed.val.v[i]),
                             Member(KeyEnabled, JBool(TRUE))>>)
    /\ (lastOp.op \in {"add", "remove", "toggle"} /\ lastOp.wrote)
          => persisted.kind = "string" /\ ObjectForm(persisted.text, domains)

\* a toggle wrote back a collection of two entries loaded from a legacy value
C15_Witness ==
    /\ Legacy
    /\ lastOp.op = "toggle"
    /\ lastOp.wrote
    /\ Len(domains) = 2
    /\ ~domains[1].enabled

\* C19: every element deserialization returns is an entry with a string
\* domain and a boolean enabled, however the parsed sequence mixes strings,
\* objects and other values
C19_EntriesWellTyped ==
    lastOp.op = "deserialize"
        => \A i \in 1..Len(lastOp.res.value) :
              /\ lastOp.res.value[i].t = "object"
              /\ Get(lastOp.res.value[i], KeyDomain).t = "string"
              /\ Get(lastOp.res.value[i], KeyEnabled).t = "boolean"

====
